---------------------------- MODULE Spec2Model ----------------------------
(***************************************************************************)
(* Model of the Eigent streaming core of ascende-agent:                    *)
(*   - EigentSSEClient.startChat / parseSSEChunk  (the frame parser),      *)
(*   - EigentOrchestrator (startTask, abortTask, submitHumanReply,         *)
(*     handleEvent, executeAndPostResult).                                 *)
(* Text is modelled as a sequence of one-character strings.  "d" stands    *)
(* for the literal prefix `data:` and "\n" for a line feed.                *)
(***************************************************************************)
EXTENDS Naturals, Integers, Sequences, FiniteSets, TLC

(* ------------------------------ bounds --------------------------------- *)
\* number of text pieces a response body is built from
MaxPieces == 5
\* number of startTask invocations
MaxTasks == 2
\* number of events streamed to the invocations on record
MaxEvents == 2
\* number of abortTask invocations
MaxAborts == 2
MaxSubmits == 2
MaxToolOps == 2
MaxRequests == 2
MaxFrames == 3

(* ------------------------- EigentSSEClient ----------------------------- *)
VARIABLES
    input,       \* the whole response body the transport will deliver
    pos,         \* number of characters already delivered by reader.read()
    buffer,      \* startChat: let buffer
    yielded,     \* the events startChat has yielded so far, in order
    ssePc,       \* "reading" | "done"
    cutDelim,    \* observation: a read ended between the two "\n" of a delimiter
    cutJson      \* observation: a read ended inside a JSON payload

sseVars == <<input, pos, buffer, yielded, ssePc, cutDelim, cutJson>>

\* EigentOrchestrator: its fields, its suspended invocations and what was
\* observed of them.
VARIABLES
    projectId,          \* this.projectId; 0 is the empty string, t the id of invocation t
    taskId,             \* this.taskId
    aborted,            \* this.aborted
    client,             \* this.client has been assigned
    pendingHumanReply,  \* this.pendingHumanReply: NoPending or [agent, owner]
    pc,                 \* where each startTask invocation is suspended
    cur,                \* the event an invocation is handling
    reply,              \* the value its human-reply wait was resolved with
    resolvedBy,         \* observation: "submit" or "abort", who resolved that wait
    produced,           \* the events startChat has yielded to each invocation
    posted,             \* the messages each invocation passed to options.postMessage
    toolRuns,           \* Tool Executor operations started, with their results
    toolResultCalls,    \* client.toolResult calls issued
    humanReplyCalls,    \* client.humanReply calls issued
    stopCalls,          \* client.stopChat calls issued, with their outcome
    completed,          \* per invocation: the task ids it emitted taskCompleted with
    failed,             \* per invocation: taskAborted emitted by its catch block
    abortNotes,         \* per invocation: taskAborted emitted by abortTask calls made while it ran
    abortedTask,        \* per invocation: abortTask was called while it ran
    abortPc,            \* "idle", or "stopping" while abortTask awaits stopChat
    abortFor,           \* the invocations in flight when that abortTask was called
    nAborts,            \* abortTask calls made so far
    abortEmits,         \* taskAborted notifications emitted by abortTask
    nSubmits,           \* observation: submitHumanReply calls counted so far
    submitted,          \* observation: the text given to the latest counted call
    file,               \* ToolExecutor: the bytes stored at the path "f", or Absent
    result,             \* the ToolResult the latest operation returned
    writes,             \* vscode.workspace.fs.writeFile invocations so far
    toolOps,            \* ToolExecutor operations called so far
    call,               \* observation: the latest operation, its data and the file before it
    requests,           \* EigentSSEClient: the fetch requests issued, by the call that issued them
    httpCalls,          \* client calls made so far
    response,           \* observation: the response to the latest request
    outcome,            \* how the latest client call ended
    params,             \* the ChatParams given to startChat
    chatBody,           \* the body of the POST /chat request, by key
    bodySent            \* that request has been issued

shared == <<projectId, taskId, aborted, client, pendingHumanReply>>
control == <<pc, cur, reply, resolvedBy>>
calls == <<toolRuns, toolResultCalls, humanReplyCalls, stopCalls>>
notes == <<completed, failed, abortNotes, abortedTask>>
abortVars == <<abortPc, abortFor, nAborts, abortEmits>>
orchVars == <<shared, control, produced, posted, calls, notes, abortVars>>
submitVars == <<nSubmits, submitted>>
toolVars == <<file, result, writes, toolOps, call>>
httpVars == <<requests, httpCalls, response, outcome>>
bodyVars == <<params, chatBody, bodySent>>
outer == <<sseVars, toolVars, httpVars, bodyVars>>
nonOrch == <<outer, submitVars>>
nonSse == <<orchVars, submitVars, toolVars, httpVars, bodyVars>>
nonTool == <<sseVars, orchVars, submitVars, httpVars, bodyVars>>
nonHttp == <<sseVars, orchVars, submitVars, toolVars, bodyVars>>
vars == <<sseVars, orchVars, submitVars, toolVars, httpVars, bodyVars>>

NL == "\n"
Payload == {"a", "b"}

\* Pieces a response body is built from: a line feed, two well-formed data
\* lines, a stray payload character and a bare `data:` prefix.
Pieces == { <<NL>>, <<"d", "a", "b">>, <<"d", "b", "a">>, <<"a">>, <<"d">> }

RECURSIVE Flatten(_)
Flatten(ss) == IF ss = <<>> THEN <<>> ELSE Head(ss) \o Flatten(Tail(ss))

Bodies == { Flatten(ps) : ps \in UNION { [1..n -> Pieces] : n \in 0..MaxPieces } }

\* String.prototype.split("\n\n"): leftmost, non-overlapping separators.
RECURSIVE Split(_)
Split(s) ==
    IF \E i \in 1..(Len(s) - 1) : s[i] = NL /\ s[i + 1] = NL
    THEN LET i == CHOOSE i \in 1..(Len(s) - 1) :
                     /\ s[i] = NL /\ s[i + 1] = NL
                     /\ \A j \in 1..(i - 1) : ~(s[j] = NL /\ s[j + 1] = NL)
         IN  <<SubSeq(s, 1, i - 1)>> \o Split(SubSeq(s, i + 2, Len(s)))
    ELSE <<s>>

\* String.prototype.trim() (the only white space of the alphabet is "\n").
RECURSIVE TrimLeft(_)
TrimLeft(s) == IF s # <<>> /\ Head(s) = NL THEN TrimLeft(Tail(s)) ELSE s

RECURSIVE TrimRight(_)
TrimRight(s) ==
    IF s # <<>> /\ s[Len(s)] = NL THEN TrimRight(SubSeq(s, 1, Len(s) - 1)) ELSE s

Trim(s) == TrimRight(TrimLeft(s))

\* The part of s before its first line feed: what (.+)$ captures.
RECURSIVE LineOf(_)
LineOf(s) == IF s = <<>> \/ Head(s) = NL THEN <<>> ELSE <<Head(s)>> \o LineOf(Tail(s))

\* chunk.match(/^data:\s*(.+)$/m): the capture of the leftmost match, or
\* <<"nomatch">>.  `^` is a line start, \s* skips white space (line feeds
\* included), (.+) needs at least one character that is not a line feed.
MatchAt(chunk, i) ==
    /\ chunk[i] = "d"
    /\ (i = 1 \/ chunk[i - 1] = NL)
    /\ TrimLeft(SubSeq(chunk, i + 1, Len(chunk))) # <<>>

NoMatch == <<"nomatch">>

DataMatch(chunk) ==
    IF \E i \in 1..Len(chunk) : MatchAt(chunk, i)
    THEN LET i == CHOOSE i \in 1..Len(chunk) :
                     MatchAt(chunk, i) /\ \A j \in 1..(i - 1) : ~MatchAt(chunk, j)
         IN  LineOf(TrimLeft(SubSeq(chunk, i + 1, Len(chunk))))
    ELSE NoMatch

\* JSON.parse of the trimmed capture, then `if (data.step)`.  "ab" and "ba"
\* are the two complete JSON objects of the alphabet (steps confirmed and
\* end); "bb" is an object with a step outside AgentStep, "aa" an object
\* without step, "a" alone a JSON value that is not an object; every other
\* text is not JSON.
NoEvent == [step |-> "none"]

JsonStep(text) ==
    CASE text = <<"a", "b">> -> "confirmed"
      [] text = <<"b", "a">> -> "end"
      [] text = <<"b", "b">> -> "zzz"
      [] OTHER -> ""

parseSSEChunk(chunk) ==
    LET m == DataMatch(chunk)
    IN  IF m = NoMatch THEN NoEvent
        ELSE IF JsonStep(Trim(m)) # "" THEN [step |-> JsonStep(Trim(m))]
        ELSE NoEvent

\* A frame that yields nothing ends the batch, as a raised error would.
RECURSIVE ParseAllRaising(_)
ParseAllRaising(frames) ==
    IF frames = <<>> THEN <<>>
    ELSE LET e == parseSSEChunk(Head(frames))
         IN  IF e = NoEvent THEN <<>> ELSE <<e>> \o ParseAllRaising(Tail(frames))

RECURSIVE ParseAll(_)
ParseAll(frames) ==
    IF frames = <<>> THEN <<>>
    ELSE LET e == parseSSEChunk(Head(frames))
         IN  (IF e = NoEvent THEN <<>> ELSE <<e>>) \o ParseAll(Tail(frames))

\* lines.pop() ?? "": the fragment kept for the next read.
RetainDropped(lines) == <<>>

Retain(lines) == lines[Len(lines)]

CompleteFrames(lines) == SubSeq(lines, 1, Len(lines) - 1)

\* One turn of the read loop for one delivered chunk.
ReadStep(buf, chunk) ==
    LET lines == Split(buf \o chunk)
    IN  [buffer |-> Retain(lines), events |-> ParseAll(CompleteFrames(lines))]

\* A stream end that drops the remainder.
EndEventsDropped(buf) == <<>>

\* After the loop: if (buffer.trim()) parse the remainder as one frame.
EndEvents(buf) == IF Trim(buf) # <<>> THEN ParseAll(<<buf>>) ELSE <<>>

\* AgentStep (types.ts).
AgentSteps == {"confirmed", "to_sub_tasks", "create_agent", "assign_task", "activate_agent",
               "deactivate_agent", "ask", "task_state", "new_task_state", "end", "error",
               "timeout", "write_file", "terminal", "notice", "search_mcp", "decompose_text",
               "decompose_progress", "add_task", "remove_task", "execute_file_write",
               "execute_read_file", "execute_search_replace", "execute_list_files",
               "execute_terminal"}

\* Frames a backend may send: two well-formed ones, a line without the
\* data: prefix, a data line that is not JSON, a JSON value that is not an
\* object, an object without step, and an object whose step is no AgentStep.
FrameTexts == {<<"d", "a", "b">>, <<"d", "b", "a">>, <<"a", "b">>, <<"d", "a", "b", "a">>,
               <<"d", "a">>, <<"d", "a", "a">>, <<"d", "b", "b">>}

\* The frames of a body, separated by "\n\n".
RECURSIVE JoinFrames(_)
JoinFrames(fs) ==
    IF fs = <<>> THEN <<>>
    ELSE IF Len(fs) = 1 THEN fs[1]
    ELSE fs[1] \o <<NL, NL>> \o JoinFrames(Tail(fs))

\* Bodies of up to MaxFrames frames, with or without a closing separator.
FrameBodies ==
    LET seqs == UNION { [1..n -> FrameTexts] : n \in 1..MaxFrames }
    IN  {JoinFrames(fs) : fs \in seqs} \cup {JoinFrames(fs) \o <<NL, NL>> : fs \in seqs}

FramesInit ==
    /\ input \in FrameBodies
    /\ pos = 0
    /\ buffer = <<>>
    /\ yielded = <<>>
    /\ ssePc = "reading"
    /\ cutDelim = FALSE
    /\ cutJson = FALSE

SseInit ==
    /\ input \in Bodies
    /\ pos = 0
    /\ buffer = <<>>
    /\ yielded = <<>>
    /\ ssePc = "reading"
    /\ cutDelim = FALSE
    /\ cutJson = FALSE

\* reader.read() delivers the next k characters.
Read(k) ==
    /\ ssePc = "reading"
    /\ pos + k <= Len(input)
    /\ LET r == ReadStep(buffer, SubSeq(input, pos + 1, pos + k))
           p == pos + k
       IN  /\ buffer' = r.buffer
           /\ yielded' = yielded \o r.events
           /\ pos' = p
           /\ cutDelim' = (cutDelim \/ (p < Len(input) /\ input[p] = NL /\ input[p + 1] = NL))
           /\ cutJson' = (cutJson \/ (p < Len(input) /\ input[p] \in Payload
                                                     /\ input[p + 1] \in Payload))
    /\ UNCHANGED <<input, ssePc>>
    /\ UNCHANGED nonSse

\* reader.read() reports done.
ReadDone ==
    /\ ssePc = "reading"
    /\ pos = Len(input)
    /\ yielded' = yielded \o EndEvents(buffer)
    /\ ssePc' = "done"
    /\ UNCHANGED <<input, pos, buffer, cutDelim, cutJson>>
    /\ UNCHANGED nonSse

SseNext == (\E k \in 1..(Len(input) - pos) : Read(k)) \/ ReadDone

(* ------------------------- EigentOrchestrator -------------------------- *)
Tasks == 1..MaxTasks

NoPending == [agent |-> "", owner |-> 0]

\* AgentStep values with local handling (types.ts).
ToolSteps == {"execute_file_write", "execute_read_file", "execute_search_replace",
              "execute_list_files", "execute_terminal"}

Event(step, agent, rid) == [step |-> step, data |-> [agent |-> agent, rid |-> rid]]

\* The events a backend stream may deliver in this model: a lifecycle
\* notice, an ask, delegated tool requests with and without request_id,
\* and the terminal markers.
StreamEvents == {
    Event("confirmed", "", ""),
    Event("ask", "a1", ""),
    Event("execute_read_file", "", "r1"),
    Event("execute_terminal", "", "r2"),
    Event("execute_file_write", "", ""),
    Event("end", "", ""),
    Event("error", "", ""),
    Event("timeout", "", "") }

NoCurrent == Event("none", "", "")

Replies == {"", "yes"}
ToolResults == {"ok", "fail"}

\* get isRunning()
isRunning == projectId # 0 /\ ~aborted

\* ["end", "error", "timeout"].includes(event.step)
IsTerminalStepNoTimeout(step) == step \in {"end", "error"}

IsTerminalStep(step) == step \in {"end", "error", "timeout"}

\* if (this.aborted) break
BreakOnAbort == aborted

\* if (reply && this.client && this.projectId)
SendReplyNever(r) == FALSE

SendReply(r) == r # "" /\ client /\ projectId # 0

\* if (!requestId || !this.client || !this.projectId) return
DropToolRidOnly(rid) == rid = ""

DropTool(rid) == rid = "" \/ ~client \/ projectId = 0

\* switch (toolName) of executeAndPostResult
ToolMethodSwapped(toolName) ==
    CASE toolName = "execute_file_write" -> "executeFileWrite"
      [] toolName = "execute_read_file" -> "executeFileWrite"
      [] toolName = "execute_search_replace" -> "executeSearchReplace"
      [] toolName = "execute_list_files" -> "executeListFiles"
      [] toolName = "execute_terminal" -> "executeTerminal"
      [] OTHER -> "none"

ToolMethod(toolName) ==
    CASE toolName = "execute_file_write" -> "executeFileWrite"
      [] toolName = "execute_read_file" -> "executeReadFile"
      [] toolName = "execute_search_replace" -> "executeSearchReplace"
      [] toolName = "execute_list_files" -> "executeListFiles"
      [] toolName = "execute_terminal" -> "executeTerminal"
      [] OTHER -> "none"

\* this.pendingHumanReply.resolve("") of abortTask
AbortReplyNonEmpty == "yes"

AbortReply == ""

\* if (this.projectId && this.client) of abortTask
StopSession == projectId # 0 /\ client

\* if (!this.aborted) of the catch block
PostSyntheticErrorAlways == TRUE

PostSyntheticError == ~aborted

SynthError(msg) == [step |-> "error", data |-> [message |-> msg]]

InFlight(t) == pc[t] \notin {"idle", "done"}

RECURSIVE SumLen(_, _)
SumLen(f, n) == IF n = 0 THEN 0 ELSE Len(f[n]) + SumLen(f, n - 1)

Produced == SumLen(produced, MaxTasks)

OrchInit ==
    /\ projectId = 0
    /\ taskId = 0
    /\ aborted = FALSE
    /\ client = FALSE
    /\ pendingHumanReply = NoPending
    /\ pc = [t \in Tasks |-> "idle"]
    /\ cur = [t \in Tasks |-> NoCurrent]
    /\ reply = [t \in Tasks |-> ""]
    /\ resolvedBy = [t \in Tasks |-> "none"]
    /\ produced = [t \in Tasks |-> <<>>]
    /\ posted = [t \in Tasks |-> <<>>]
    /\ toolRuns = <<>>
    /\ toolResultCalls = <<>>
    /\ humanReplyCalls = <<>>
    /\ stopCalls = <<>>
    /\ completed = [t \in Tasks |-> <<>>]
    /\ failed = [t \in Tasks |-> 0]
    /\ abortNotes = [t \in Tasks |-> 0]
    /\ abortedTask = [t \in Tasks |-> FALSE]
    /\ abortPc = "idle"
    /\ abortFor = {}
    /\ nAborts = 0
    /\ abortEmits = 0

\* The observation logs cover the invocations that have not returned and
\* the ones returned since the last start: a start drops the entries of the
\* invocations that have returned.
Returned(t) == pc[t] = "done"

Keep(log) == SelectSeq(log, LAMBDA c : ~Returned(c.task))

\* startTask up to its first await: this.aborted = false; await buildChatParams.
\* Invocations are numbered in call order.
StartTask(t) ==
    /\ pc[t] = "idle"
    /\ \A u \in 1..(t - 1) : pc[u] # "idle"
    /\ aborted' = FALSE
    /\ pc' = [pc EXCEPT ![t] = "build"]
    /\ produced' = [u \in Tasks |-> IF Returned(u) THEN <<>> ELSE produced[u]]
    /\ posted' = [u \in Tasks |-> IF Returned(u) THEN <<>> ELSE posted[u]]
    /\ toolRuns' = Keep(toolRuns)
    /\ toolResultCalls' = Keep(toolResultCalls)
    /\ humanReplyCalls' = Keep(humanReplyCalls)
    /\ stopCalls' = SelectSeq(stopCalls, LAMBDA c : ~Returned(c.project))
    /\ completed' = [u \in Tasks |-> IF Returned(u) THEN <<>> ELSE completed[u]]
    /\ failed' = [u \in Tasks |-> IF Returned(u) THEN 0 ELSE failed[u]]
    /\ abortNotes' = [u \in Tasks |-> IF Returned(u) THEN 0 ELSE abortNotes[u]]
    /\ abortedTask' = [u \in Tasks |-> IF Returned(u) THEN FALSE ELSE abortedTask[u]]
    /\ UNCHANGED <<projectId, taskId, client, pendingHumanReply, cur, reply, resolvedBy, abortVars>>
    /\ UNCHANGED nonOrch

\* buildChatParams resolved: the identifiers are taken from params; await getAscendeApiKey.
ParamsBuilt(t) ==
    /\ pc[t] = "build"
    /\ projectId' = t
    /\ taskId' = t
    /\ pc' = [pc EXCEPT ![t] = "key"]
    /\ UNCHANGED <<aborted, client, pendingHumanReply, cur, reply, resolvedBy,
                   produced, posted, calls, notes, abortVars>>
    /\ UNCHANGED nonOrch

\* getAscendeApiKey resolved: client and toolExecutor are created, taskStarted
\* is emitted and the loop asks startChat for its first event.
ClientCreated(t) ==
    /\ pc[t] = "key"
    /\ client' = TRUE
    /\ pc' = [pc EXCEPT ![t] = "next"]
    /\ UNCHANGED <<projectId, taskId, aborted, pendingHumanReply, cur, reply, resolvedBy,
                   produced, posted, calls, notes, abortVars>>
    /\ UNCHANGED nonOrch

\* The position reached once handleEvent has returned for event e.
AfterHandle(e) == IF IsTerminalStep(e.step) THEN "closing" ELSE "next"

\* executeAndPostResult up to its first await.
executeAndPostResultDetached(t, e) ==
    IF DropTool(e.data.rid) \/ ToolMethod(e.step) = "none"
    THEN /\ pc' = [pc EXCEPT ![t] = AfterHandle(e)]
         /\ UNCHANGED toolRuns
    ELSE /\ toolRuns' = Append(toolRuns, [task |-> t, n |-> Len(produced[t]) + 1,
                                          method |-> ToolMethod(e.step), result |-> "running"])
         /\ pc' = [pc EXCEPT ![t] = AfterHandle(e)]

executeAndPostResult(t, e) ==
    IF DropTool(e.data.rid) \/ ToolMethod(e.step) = "none"
    THEN /\ pc' = [pc EXCEPT ![t] = AfterHandle(e)]
         /\ UNCHANGED toolRuns
    ELSE /\ toolRuns' = Append(toolRuns, [task |-> t, n |-> Len(produced[t]) + 1,
                                          method |-> ToolMethod(e.step), result |-> "running"])
         /\ pc' = [pc EXCEPT ![t] = "toolExec"]

\* handleEvent up to its first await: forward, then dispatch on the step.
handleEventUnforwarded(t, e) ==
    /\ cur' = [cur EXCEPT ![t] = e]
    /\ CASE e.step = "ask" ->
              /\ pendingHumanReply' = [agent |-> e.data.agent, owner |-> t]
              /\ pc' = [pc EXCEPT ![t] = "waitReply"]
              /\ UNCHANGED <<toolRuns, posted>>
         [] e.step \in ToolSteps ->
              /\ executeAndPostResult(t, e)
              /\ UNCHANGED <<pendingHumanReply, posted>>
         [] OTHER ->
              /\ posted' = [posted EXCEPT ![t] = Append(@, [step |-> e.step, data |-> e.data])]
              /\ pc' = [pc EXCEPT ![t] = AfterHandle(e)]
              /\ UNCHANGED <<pendingHumanReply, toolRuns>>

handleEvent(t, e) ==
    /\ posted' = [posted EXCEPT ![t] = Append(@, [step |-> e.step, data |-> e.data])]
    /\ cur' = [cur EXCEPT ![t] = e]
    /\ CASE e.step = "ask" ->
              /\ pendingHumanReply' = [agent |-> e.data.agent, owner |-> t]
              /\ pc' = [pc EXCEPT ![t] = "waitReply"]
              /\ UNCHANGED toolRuns
         [] e.step \in ToolSteps ->
              /\ executeAndPostResult(t, e)
              /\ UNCHANGED pendingHumanReply
         [] OTHER ->
              /\ pc' = [pc EXCEPT ![t] = AfterHandle(e)]
              /\ UNCHANGED <<pendingHumanReply, toolRuns>>

\* A loop that takes its next event while handleEvent still waits for the reply.
LoopTurnUnblocked(t, e) ==
    /\ pc[t] \in {"next", "waitReply"}
    /\ produced' = [produced EXCEPT ![t] = Append(@, e)]
    /\ IF BreakOnAbort
       THEN /\ pc' = [pc EXCEPT ![t] = "closing"]
            /\ UNCHANGED <<posted, cur, pendingHumanReply, toolRuns>>
       ELSE handleEvent(t, e)
    /\ UNCHANGED <<projectId, taskId, aborted, client, reply, resolvedBy, toolResultCalls,
                   humanReplyCalls, stopCalls, notes, abortVars>>
    /\ UNCHANGED nonOrch

\* One turn of the for-await loop of invocation t on event e.
LoopTurn(t, e) ==
    /\ pc[t] = "next"
    /\ produced' = [produced EXCEPT ![t] = Append(@, e)]
    /\ IF BreakOnAbort
       THEN /\ pc' = [pc EXCEPT ![t] = "closing"]
            /\ UNCHANGED <<posted, cur, pendingHumanReply, toolRuns>>
       ELSE handleEvent(t, e)
    /\ UNCHANGED <<projectId, taskId, aborted, client, reply, resolvedBy, toolResultCalls,
                   humanReplyCalls, stopCalls, notes, abortVars>>
    /\ UNCHANGED nonOrch

\* startChat yields event e to the for-await loop of invocation t.
StreamEvent(t, e) == Produced < MaxEvents /\ LoopTurn(t, e)

\* The stream of the end-to-end scenario: an ask, a read request, an end.
Script == <<Event("ask", "a1", ""), Event("execute_read_file", "", "r1"), Event("end", "", "")>>

\* startChat yields the next event of the script.
ScriptedEvent(t) ==
    /\ Len(produced[t]) < Len(Script)
    /\ LoopTurn(t, Script[Len(produced[t]) + 1])

\* finally { this.projectId = ""; this.taskId = "" }
FinallyKeepsProject == taskId' = 0 /\ UNCHANGED projectId

Finally == projectId' = 0 /\ taskId' = 0

\* The statements after the loop and the finally block.
EmitCompleted(t) ==
    /\ completed' = [completed EXCEPT ![t] = Append(@, taskId)]
    /\ Finally
    /\ pc' = [pc EXCEPT ![t] = "done"]
    /\ cur' = [cur EXCEPT ![t] = NoCurrent]
    /\ reply' = [reply EXCEPT ![t] = ""]
    /\ resolvedBy' = [resolvedBy EXCEPT ![t] = "none"]
    /\ UNCHANGED <<posted, failed>>

\* The catch block and the finally block.
CatchFailure(t, msg) ==
    /\ posted' = [posted EXCEPT ![t] = IF PostSyntheticError THEN Append(@, SynthError(msg)) ELSE @]
    /\ failed' = [failed EXCEPT ![t] = @ + 1]
    /\ Finally
    /\ pc' = [pc EXCEPT ![t] = "done"]
    /\ cur' = [cur EXCEPT ![t] = NoCurrent]
    /\ reply' = [reply EXCEPT ![t] = ""]
    /\ resolvedBy' = [resolvedBy EXCEPT ![t] = "none"]
    /\ UNCHANGED completed

\* The response body ends: the loop is exhausted.
StreamEnd(t) ==
    /\ pc[t] = "next"
    /\ EmitCompleted(t)
    /\ UNCHANGED <<aborted, client, pendingHumanReply, produced, calls,
                   abortNotes, abortedTask, abortVars>>
    /\ UNCHANGED nonOrch

\* startChat throws (response not ok, no body, or a failed read).
StreamFail(t) ==
    /\ pc[t] = "next"
    /\ CatchFailure(t, "startChat failed")
    /\ UNCHANGED <<aborted, client, pendingHumanReply, produced, calls,
                   abortNotes, abortedTask, abortVars>>
    /\ UNCHANGED nonOrch

\* After a break the iterator has been closed.
LoopLeft(t) ==
    /\ pc[t] = "closing"
    /\ EmitCompleted(t)
    /\ UNCHANGED <<aborted, client, pendingHumanReply, produced, calls,
                   abortNotes, abortedTask, abortVars>>
    /\ UNCHANGED nonOrch

\* Resolving the promise of waitForHumanReply and clearing the slot.
\* Resolving every waiting invocation instead of the slot's.
ResolvePendingAll(r, who) ==
    /\ reply' = [t \in Tasks |-> IF pc[t] = "waitReply" THEN r ELSE reply[t]]
    /\ resolvedBy' = [t \in Tasks |-> IF pc[t] = "waitReply" THEN who ELSE resolvedBy[t]]
    /\ pc' = [t \in Tasks |-> IF pc[t] = "waitReply" THEN "resume" ELSE pc[t]]
    /\ pendingHumanReply' = NoPending

ResolvePending(r, who) ==
    /\ reply' = [reply EXCEPT ![pendingHumanReply.owner] = r]
    /\ resolvedBy' = [resolvedBy EXCEPT ![pendingHumanReply.owner] = who]
    /\ pc' = [pc EXCEPT ![pendingHumanReply.owner] = "resume"]
    /\ pendingHumanReply' = NoPending

\* submitHumanReply with the slot left in place.
submitHumanReplyKeepsSlot(r) ==
    /\ IF pendingHumanReply # NoPending
       THEN /\ reply' = [reply EXCEPT ![pendingHumanReply.owner] = r]
            /\ resolvedBy' = [resolvedBy EXCEPT ![pendingHumanReply.owner] = "submit"]
            /\ pc' = [pc EXCEPT ![pendingHumanReply.owner] = "resume"]
            /\ UNCHANGED pendingHumanReply
       ELSE UNCHANGED <<reply, resolvedBy, pc, pendingHumanReply>>
    /\ UNCHANGED <<projectId, taskId, aborted, client, cur, produced, posted,
                   calls, notes, abortVars>>
    /\ UNCHANGED outer

submitHumanReply(r) ==
    /\ IF pendingHumanReply # NoPending
       THEN ResolvePending(r, "submit")
       ELSE UNCHANGED <<reply, resolvedBy, pc, pendingHumanReply>>
    /\ UNCHANGED <<projectId, taskId, aborted, client, cur, produced, posted,
                   calls, notes, abortVars>>
    /\ UNCHANGED outer

\* A call from the provider, not counted.
SubmitReply(r) == submitHumanReply(r) /\ UNCHANGED submitVars

\* The same call, counted and with its argument observed.
SubmitReplyCounted(r) ==
    /\ nSubmits < MaxSubmits
    /\ submitHumanReply(r)
    /\ nSubmits' = nSubmits + 1
    /\ submitted' = r

\* The ask case after the wait: maybe send the reply.
ReplyResumed(t) ==
    /\ pc[t] = "resume"
    /\ IF SendReply(reply[t])
       THEN /\ humanReplyCalls' = Append(humanReplyCalls,
                    [task |-> t, n |-> Len(produced[t]), project |-> projectId,
                     agent |-> cur[t].data.agent, reply |-> reply[t],
                     aborted |-> aborted, by |-> resolvedBy[t]])
            /\ pc' = [pc EXCEPT ![t] = "humanReplyCall"]
       ELSE /\ pc' = [pc EXCEPT ![t] = AfterHandle(cur[t])]
            /\ UNCHANGED humanReplyCalls
    /\ UNCHANGED <<shared, cur, reply, resolvedBy, produced, posted, toolRuns, toolResultCalls,
                   stopCalls, notes, abortVars>>
    /\ UNCHANGED nonOrch

\* client.humanReply returns or throws.
HumanReplyReturn(t, ok) ==
    /\ pc[t] = "humanReplyCall"
    /\ IF ok
       THEN /\ pc' = [pc EXCEPT ![t] = AfterHandle(cur[t])]
            /\ UNCHANGED <<projectId, taskId, posted, failed, completed, cur, reply, resolvedBy>>
       ELSE CatchFailure(t, "humanReply failed")
    /\ UNCHANGED <<aborted, client, pendingHumanReply, produced, calls,
                   abortNotes, abortedTask, abortVars>>
    /\ UNCHANGED nonOrch

\* The Tool Executor operation returns res; the result is posted.
ToolExecuted(t, res) ==
    /\ pc[t] = "toolExec"
    /\ toolRuns' = [i \in 1..Len(toolRuns) |->
                       IF toolRuns[i].task = t /\ toolRuns[i].result = "running"
                       THEN [toolRuns[i] EXCEPT !.result = res] ELSE toolRuns[i]]
    /\ toolResultCalls' = Append(toolResultCalls,
            [task |-> t, n |-> Len(produced[t]), project |-> projectId,
             request_id |-> cur[t].data.rid, tool_name |-> cur[t].step, result |-> res,
             aborted |-> aborted])
    /\ pc' = [pc EXCEPT ![t] = "toolResultCall"]
    /\ UNCHANGED <<shared, cur, reply, resolvedBy, produced, posted, humanReplyCalls, stopCalls,
                   notes, abortVars>>
    /\ UNCHANGED nonOrch

\* client.toolResult returns or throws.
ToolResultReturn(t, ok) ==
    /\ pc[t] = "toolResultCall"
    /\ IF ok
       THEN /\ pc' = [pc EXCEPT ![t] = AfterHandle(cur[t])]
            /\ UNCHANGED <<projectId, taskId, posted, failed, completed, cur, reply, resolvedBy>>
       ELSE CatchFailure(t, "toolResult failed")
    /\ UNCHANGED <<aborted, client, pendingHumanReply, produced, calls,
                   abortNotes, abortedTask, abortVars>>
    /\ UNCHANGED nonOrch

Running == {t \in Tasks : InFlight(t)}

\* this.emit("taskAborted") of abortTask.
EmitAborted(ts) ==
    /\ abortNotes' = [t \in Tasks |-> IF t \in ts THEN abortNotes[t] + 1 ELSE abortNotes[t]]
    /\ abortEmits' = abortEmits + 1

\* .catch(() => {}) on the stopChat promise.
SwallowStopFailureNot == FALSE

SwallowStopFailure == TRUE

\* abortTask up to the await of stopChat, or to its end when no session is active.
abortTask ==
    /\ abortPc = "idle"
    /\ nAborts < MaxAborts
    /\ nAborts' = nAborts + 1
    /\ aborted' = TRUE
    /\ abortedTask' = [t \in Tasks |-> abortedTask[t] \/ InFlight(t)]
    /\ IF pendingHumanReply # NoPending
       THEN ResolvePending(AbortReply, "abort")
       ELSE UNCHANGED <<reply, resolvedBy, pc, pendingHumanReply>>
    /\ IF StopSession
       THEN /\ stopCalls' = Append(stopCalls, [project |-> projectId, outcome |-> "pending"])
            /\ abortPc' = "stopping"
            /\ abortFor' = Running
            /\ UNCHANGED <<abortNotes, abortEmits>>
       ELSE /\ EmitAborted(Running)
            /\ UNCHANGED <<stopCalls, abortPc, abortFor>>
    /\ UNCHANGED <<projectId, taskId, client, cur, produced, posted, toolRuns,
                   toolResultCalls, humanReplyCalls, completed, failed>>
    /\ UNCHANGED nonOrch

\* stopChat returned or threw (the failure is swallowed): emit taskAborted.
abortTaskStopped(ok) ==
    /\ abortPc = "stopping"
    /\ stopCalls' = [i \in 1..Len(stopCalls) |->
                        IF stopCalls[i].outcome = "pending"
                        THEN [stopCalls[i] EXCEPT !.outcome = IF ok THEN "ok" ELSE "failed"]
                        ELSE stopCalls[i]]
    /\ IF ok \/ SwallowStopFailure
       THEN /\ EmitAborted(abortFor)
            /\ abortPc' = "idle"
       ELSE /\ abortPc' = "failed"
            /\ UNCHANGED <<abortNotes, abortEmits>>
    /\ abortFor' = {}
    /\ UNCHANGED <<shared, control, produced, posted, toolRuns, toolResultCalls,
                   humanReplyCalls, completed, failed, abortedTask, nAborts>>
    /\ UNCHANGED nonOrch
(* ------------------------------ ToolExecutor ----------------------------- *)
\* Texts are sequences of characters or message tokens.  An optional field
\* is Absent or holds one value.
Absent == <<>>
Field(v) == <<v>>
Has(f) == f # Absent
Val(f) == f[1]

\* TextDecoder("utf-8").decode: the invalid byte "x" becomes the replacement
\* character "?".
Decode(bytes) == [i \in 1..Len(bytes) |-> IF bytes[i] = "x" THEN "?" ELSE bytes[i]]

\* TextEncoder.encode: every character has an encoding; an undefined
\* argument encodes as the empty text.
Encode(text) == IF Has(text) THEN Val(text) ELSE <<>>

\* The first index at or after i where sep occurs in s, 0 when there is none.
RECURSIVE IndexOf(_, _, _)
IndexOf(s, sep, i) ==
    IF i + Len(sep) - 1 > Len(s) THEN 0
    ELSE IF SubSeq(s, i, i + Len(sep) - 1) = sep THEN i
    ELSE IndexOf(s, sep, i + 1)

\* String.prototype.split(sep): an undefined separator gives the whole
\* text, the empty separator gives its characters.
RECURSIVE SplitBy(_, _)
SplitBy(s, sep) ==
    IF ~Has(sep) THEN <<s>>
    ELSE IF Val(sep) = <<>> THEN [i \in 1..Len(s) |-> <<s[i]>>]
    ELSE LET k == IndexOf(s, Val(sep), 1)
         IN  IF k = 0 THEN <<s>>
             ELSE <<SubSeq(s, 1, k - 1)>> \o
                  SplitBy(SubSeq(s, k + Len(Val(sep)), Len(s)), sep)

\* Array.prototype.join(glue): an undefined glue is a comma.
RECURSIVE JoinWith(_, _)
JoinWith(parts, glue) ==
    LET g == IF Has(glue) THEN Val(glue) ELSE <<",">>
    IN  IF parts = <<>> THEN <<>>
        ELSE IF Len(parts) = 1 THEN parts[1]
        ELSE parts[1] \o g \o JoinWith(Tail(parts), glue)

\* ToolResult (types.ts).
ToolResult(ok, content, error) == [success |-> ok, content |-> content, error |-> error]
NoResult == [success |-> "none", content |-> Absent, error |-> Absent]

\* catch (e): e instanceof Error ? e.message : String(e)
Caught(e) == ToolResult(FALSE, Absent, Field(<<e>>))

NoData == [path |-> Absent, content |-> Absent, old_string |-> Absent,
           new_string |-> Absent, pattern |-> Absent, command |-> Absent, cwd |-> Absent]
NoCall == [op |-> "none", data |-> NoData, before |-> Absent, fault |-> "none"]

Paths == {Absent, Field(<<"f">>)}
Texts == {Absent, Field(<<>>), Field(<<"a">>), Field(<<"b">>), Field(<<"c">>), Field(<<"a", "a">>)}
InitialFiles == {Absent, Field(<<>>), Field(<<"a">>), Field(<<"a", "b", "a">>), Field(<<"a", "x">>),
                 Field(<<"a", "a", "a">>)}
FsFaults == {"none", "read", "write"}

\* resolvePath: path.isAbsolute raises a TypeError on an undefined path.
resolvePath(p) == IF Has(p) THEN "ok" ELSE "TypeError"

ToolInit ==
    /\ file \in InitialFiles
    /\ result = NoResult
    /\ writes = 0
    /\ toolOps = 0
    /\ call = NoCall

ToolIdle ==
    /\ file = Absent
    /\ result = NoResult
    /\ writes = 0
    /\ toolOps = 0
    /\ call = NoCall

Called(op, data, fault) ==
    /\ toolOps < MaxToolOps
    /\ toolOps' = toolOps + 1
    /\ call' = [op |-> op, data |-> data, before |-> file, fault |-> fault]

\* vscode.workspace.fs.readFile: raises when the file is missing or on a fault.
ReadFails(fault) == ~Has(file) \/ fault = "read"
ReadError(fault) == IF fault = "read" THEN "EIO" ELSE "ENOENT"

executeFileWrite(data, fault) ==
    /\ Called("executeFileWrite", data, fault)
    /\ IF resolvePath(data.path) # "ok"
       THEN result' = Caught("TypeError") /\ UNCHANGED <<file, writes>>
       ELSE /\ writes' = writes + 1
            /\ IF fault = "write"
               THEN result' = Caught("EACCES") /\ UNCHANGED file
               ELSE /\ file' = Field(Encode(data.content))
                    /\ result' = ToolResult(TRUE, Field(<<"Written to ">> \o Val(data.path)), Absent)
    /\ UNCHANGED nonTool

executeReadFile(data, fault) ==
    /\ Called("executeReadFile", data, fault)
    /\ result' = IF resolvePath(data.path) # "ok" THEN Caught("TypeError")
                 ELSE IF ReadFails(fault) THEN Caught(ReadError(fault))
                 ELSE ToolResult(TRUE, Field(Decode(Val(file))), Absent)
    /\ UNCHANGED <<file, writes>>
    /\ UNCHANGED nonTool

\* executeSearchReplace with the comparison of old and new content left out.
executeSearchReplaceAlwaysWrites(data, fault) ==
    /\ Called("executeSearchReplace", data, fault)
    /\ IF resolvePath(data.path) # "ok"
       THEN result' = Caught("TypeError") /\ UNCHANGED <<file, writes>>
       ELSE IF ReadFails(fault)
       THEN result' = Caught(ReadError(fault)) /\ UNCHANGED <<file, writes>>
       ELSE LET content == Decode(Val(file))
                newContent == JoinWith(SplitBy(content, data.old_string), data.new_string)
            IN  /\ writes' = writes + 1
                /\ IF fault = "write"
                   THEN result' = Caught("EACCES") /\ UNCHANGED file
                   ELSE /\ file' = Field(Encode(Field(newContent)))
                        /\ result' = ToolResult(TRUE, Field(<<"Search and replace completed">>), Absent)
    /\ UNCHANGED nonTool

executeSearchReplace(data, fault) ==
    /\ Called("executeSearchReplace", data, fault)
    /\ IF resolvePath(data.path) # "ok"
       THEN result' = Caught("TypeError") /\ UNCHANGED <<file, writes>>
       ELSE IF ReadFails(fault)
       THEN result' = Caught(ReadError(fault)) /\ UNCHANGED <<file, writes>>
       ELSE LET content == Decode(Val(file))
                newContent == JoinWith(SplitBy(content, data.old_string), data.new_string)
            IN  IF content = newContent
                THEN /\ result' = ToolResult(TRUE, Field(<<"No changes needed (old_string not found)">>), Absent)
                     /\ UNCHANGED <<file, writes>>
                ELSE /\ writes' = writes + 1
                     /\ IF fault = "write"
                        THEN result' = Caught("EACCES") /\ UNCHANGED file
                        ELSE /\ file' = Field(Encode(Field(newContent)))
                             /\ result' = ToolResult(TRUE, Field(<<"Search and replace completed">>), Absent)
    /\ UNCHANGED nonTool

\* pattern.includes("*") || pattern.includes("?") after data.pattern || "**/*"
Patterns == {Absent, Field(<<>>), Field(<<"*">>), Field(<<"d">>)}
isGlob(pattern) ==
    LET p == IF Has(pattern) /\ Val(pattern) # <<>> THEN Val(pattern) ELSE <<"*", "*", "/", "*">>
    IN  \E i \in 1..Len(p) : p[i] \in {"*", "?"}

\* What findFiles or listFiles delivers: the paths found, whether the
\* limit was hit, or a fault.
Listings == {[fault |-> FALSE, paths |-> <<>>, didHitLimit |-> FALSE],
             [fault |-> FALSE, paths |-> <<"f">>, didHitLimit |-> FALSE],
             [fault |-> FALSE, paths |-> <<"f", "g">>, didHitLimit |-> TRUE],
             [fault |-> TRUE, paths |-> <<>>, didHitLimit |-> FALSE]}

Lines(paths) == JoinWith([i \in 1..Len(paths) |-> <<paths[i]>>], Field(<<"\n">>))

executeListFiles(data, workspaceFolder, listing) ==
    /\ Called("executeListFiles", data, IF listing.fault THEN "list" ELSE "none")
    /\ result' =
          IF isGlob(data.pattern)
          THEN IF ~workspaceFolder THEN ToolResult(FALSE, Absent, Field(<<"No workspace folder">>))
               ELSE IF listing.fault THEN Caught("EIO")
               ELSE ToolResult(TRUE, Field(Lines(listing.paths)), Absent)
          ELSE IF listing.fault THEN Caught("ENOENT")
               ELSE ToolResult(TRUE,
                        Field(Lines(IF listing.didHitLimit
                                    THEN Append(listing.paths, "(... limit reached)")
                                    ELSE listing.paths)), Absent)
    /\ UNCHANGED <<file, writes>>
    /\ UNCHANGED nonTool

\* What execa delivers with { shell: true, all: true }: it resolves when the
\* command exits with code 0 and rejects otherwise.  The rejection of a
\* command that ran carries its combined output in `all`, the empty text
\* when it printed nothing; a command that could not be started has no
\* output fields.
Outputs == {<<>>, <<"o">>}
ShellOutcomes ==
    [kind : {"exit0", "nonzero"}, all : {Field(o) : o \in Outputs}, message : {"Command failed"}]
    \cup {[kind |-> "spawn", all |-> Absent, message |-> "spawn ENOENT"]}

\* a ?? b
Coalesce(a, b) == IF Has(a) THEN a ELSE b

\* execa raises a TypeError for an undefined command.
NoCommand == [kind |-> "spawn", all |-> Absent, message |-> "TypeError"]

executeTerminal(data, out) ==
    LET o == IF Has(data.command) THEN out ELSE NoCommand
    IN  /\ Called("executeTerminal", data, o.kind)
        /\ result' =
              IF o.kind = "exit0"
              THEN ToolResult(TRUE, Coalesce(o.all, Field(<<>>)), Absent)
              ELSE LET output == Coalesce(o.all, Field(<<o.message>>))
                   IN  ToolResult(FALSE, output, output)
    /\ UNCHANGED <<file, writes>>
    /\ UNCHANGED nonTool

ToolNext ==
    \/ \E p \in Paths, c \in Texts, f \in FsFaults :
          executeFileWrite([NoData EXCEPT !.path = p, !.content = c], f)
    \/ \E p \in Paths, f \in FsFaults :
          executeReadFile([NoData EXCEPT !.path = p], f)
    \/ \E p \in Paths, o \in Texts, n \in Texts, f \in FsFaults :
          executeSearchReplace([NoData EXCEPT !.path = p, !.old_string = o, !.new_string = n], f)
    \/ \E p \in Patterns, w \in BOOLEAN, l \in Listings :
          executeListFiles([NoData EXCEPT !.pattern = p], w, l)
    \/ \E c \in {Absent, Field(<<"x">>)}, d \in Paths, out \in ShellOutcomes :
          executeTerminal([NoData EXCEPT !.command = c, !.cwd = d], out)

(* --------------------------- EigentSSEClient requests -------------------- *)
ControlCalls == {"stopChat", "humanReply", "toolResult", "addTask", "removeTask",
                 "skipTask", "improve"}

\* What fetch delivers: a response with a status, a status text and a body
\* text, whose text() may itself fail.
Statuses == {200, 204, 404, 500}
Responses == [status : Statuses, text : {"", "detail"}, textFails : BOOLEAN]
NoResponse == [status |-> 0, text |-> "", textFails |-> FALSE]

\* Response.ok
Ok(res) == res.status >= 200 /\ res.status <= 299

\* new Error(`Eigent ${call} failed: ${res.status} - ${text}`)
TransportError(c, res) == [call |-> c, status |-> res.status, text |-> res.text]
NoError == [call |-> "none", status |-> 0, text |-> ""]
\* the rejection of res.text(), which carries neither status nor text
BodyReadError(c) == [call |-> c, status |-> 0, text |-> "body read failed"]
NoBodyError == [call |-> "startChat", status |-> 0, text |-> "no response body"]

NoOutcome == [call |-> "none", state |-> "none", error |-> NoError]
Failed(c, e) == [call |-> c, state |-> "failed", error |-> e]
Succeeded(c) == [call |-> c, state |-> "ok", error |-> NoError]

\* The statements after fetch: if (!res.ok) { text = await res.text(); throw }
Checked(c, res) ==
    IF Ok(res) THEN Succeeded(c)
    ELSE IF res.textFails THEN Failed(c, BodyReadError(c))
    ELSE Failed(c, TransportError(c, res))

\* stopChat: if (!res.ok && res.status !== 204)
CheckedStop(c, res) ==
    IF ~Ok(res) /\ res.status # 204 THEN Checked(c, res) ELSE Succeeded(c)

Streaming == [call |-> "startChat", state |-> "streaming", error |-> NoError]

\* startChat: the response check, then const reader = res.body?.getReader()
CheckedStart(res, body) ==
    IF ~Ok(res) THEN Checked("startChat", res)
    ELSE IF ~Has(body) THEN Failed("startChat", NoBodyError)
    ELSE Streaming

HttpIdle ==
    /\ requests = <<>>
    /\ httpCalls = 0
    /\ response = NoResponse
    /\ outcome = NoOutcome

\* A request issued again after a response that is not successful.
RequestRetried(c, res, out) ==
    /\ httpCalls < MaxRequests
    /\ httpCalls' = httpCalls + 1
    /\ requests' = IF Ok(res) THEN Append(requests, c) ELSE requests \o <<c, c>>
    /\ response' = res
    /\ outcome' = out

\* One call: one fetch, and what the call makes of the response.
Request(c, res, out) ==
    /\ httpCalls < MaxRequests
    /\ httpCalls' = httpCalls + 1
    /\ requests' = Append(requests, c)
    /\ response' = res
    /\ outcome' = out

stopChat(res) == Request("stopChat", res, CheckedStop("stopChat", res)) /\ UNCHANGED nonHttp

humanReply(res) == Request("humanReply", res, Checked("humanReply", res)) /\ UNCHANGED nonHttp

toolResult(res) == Request("toolResult", res, Checked("toolResult", res)) /\ UNCHANGED nonHttp

addTask(res) == Request("addTask", res, Checked("addTask", res)) /\ UNCHANGED nonHttp

removeTask(res) == Request("removeTask", res, Checked("removeTask", res)) /\ UNCHANGED nonHttp

skipTask(res) == Request("skipTask", res, Checked("skipTask", res)) /\ UNCHANGED nonHttp

improve(res) == Request("improve", res, Checked("improve", res)) /\ UNCHANGED nonHttp

\* Response bodies of a started chat; Absent when res.body is null.
HttpBodies == {Absent, Field(<<>>), Field(<<"d", "a", "b", NL, NL>>),
               Field(<<"d", "a", "b", NL, NL, "d", "b", "a">>)}

\* startChat up to the read loop.  A new generator has yielded nothing; it
\* starts to read only after a successful response that has a body.
startChat(res, body) ==
    /\ ssePc = "done"
    /\ Request("startChat", res, CheckedStart(res, body))
    /\ yielded' = <<>>
    /\ pos' = 0
    /\ buffer' = <<>>
    /\ cutDelim' = FALSE
    /\ cutJson' = FALSE
    /\ input' = IF CheckedStart(res, body) = Streaming THEN Val(body) ELSE <<>>
    /\ ssePc' = IF CheckedStart(res, body) = Streaming THEN "reading" ELSE "done"
    /\ UNCHANGED <<orchVars, submitVars, toolVars, bodyVars>>

HttpNext ==
    \/ \E res \in Responses, body \in HttpBodies : startChat(res, body)
    \/ \E k \in 1..(Len(input) - pos) : Read(k)
    \/ ReadDone
    \/ \E res \in Responses : stopChat(res)
    \/ \E res \in Responses : humanReply(res)
    \/ \E res \in Responses : toolResult(res)
    \/ \E res \in Responses : addTask(res)
    \/ \E res \in Responses : removeTask(res)
    \/ \E res \in Responses : skipTask(res)
    \/ \E res \in Responses : improve(res)

(* ------------------------- start-session request body -------------------- *)
\* A null value of a nullable field: neither Absent nor a Field.
Null == <<"null", "null">>

\* x != null
NotNullish(x) == Len(x) = 1

\* a ?? b on a field
OrDefault(x, d) == IF NotNullish(x) THEN x ELSE Field(d)

\* ChatParams (types.ts).
ChatFields == {"task_id", "project_id", "question", "email", "attaches", "model_platform",
               "model_type", "api_key", "api_url", "language", "browser_port", "max_retries",
               "allow_local_system", "installed_mcp", "env_path", "file_save_path"}

NoParams == [f \in ChatFields |-> Absent]

\* buildEigentChatParams(apiConfiguration, question, images, workspacePath):
\* one identifier for task and project, images ?? [], the URL of the
\* configured provider or null, the workspace path given or the default one.
buildEigentChatParams(id, question, images, apiUrl, workspacePath) ==
    [NoParams EXCEPT
        !.task_id = Field(id),
        !.project_id = Field(id),
        !.question = Field(question),
        !.email = Field("user@ascende.local"),
        !.attaches = OrDefault(images, <<>>),
        !.model_platform = Field("openai-compatible-model"),
        !.model_type = Field("m"),
        !.api_key = Field("k"),
        !.api_url = apiUrl,
        !.language = Field("en"),
        !.browser_port = Field(9222),
        !.max_retries = Field(3),
        !.allow_local_system = Field(TRUE),
        !.installed_mcp = Field("mcpServers: {}"),
        !.file_save_path = OrDefault(workspacePath, "workspace")]

BuiltParams ==
    {buildEigentChatParams(id, "q", images, apiUrl, w) :
        id \in {"id1", "id2"}, images \in {Absent, Field(<<"img">>)},
        apiUrl \in {Null, Field("u")}, w \in {Absent, Field("w")}}

\* Other ChatParams a caller of startChat may pass: the optional fields set
\* or left out.
OtherParams ==
    {[NoParams EXCEPT
        !.task_id = Field("id1"), !.project_id = Field("id1"), !.question = Field("q"),
        !.email = Field("e"), !.model_platform = Field("p"), !.model_type = Field("m"),
        !.api_key = Field("k"),
        !.attaches = a, !.api_url = u, !.language = l, !.browser_port = b,
        !.max_retries = r, !.allow_local_system = s, !.installed_mcp = i,
        !.env_path = e, !.file_save_path = w] :
        a \in {Absent, Field(<<"img">>)}, u \in {Absent, Null, Field("u")},
        l \in {Absent, Field("fr")}, b \in {Absent, Field(1)}, r \in {Absent, Field(0)},
        s \in {Absent, Field(FALSE)}, i \in {Absent, Field("mcpServers: {x}")},
        e \in {Absent, Null, Field("e")}, w \in {Absent, Field("w")}}

\* toChatBody(params); a key whose value is undefined is left out by
\* JSON.stringify, as is a key that is never assigned.
toChatBody(p) ==
    [NoParams EXCEPT
        !.task_id = p.task_id,
        !.project_id = p.project_id,
        !.question = p.question,
        !.email = p.email,
        !.attaches = OrDefault(p.attaches, <<>>),
        !.model_platform = p.model_platform,
        !.model_type = p.model_type,
        !.api_key = p.api_key,
        !.language = OrDefault(p.language, "en"),
        !.browser_port = OrDefault(p.browser_port, 9222),
        !.max_retries = OrDefault(p.max_retries, 3),
        !.allow_local_system = OrDefault(p.allow_local_system, FALSE),
        !.installed_mcp = OrDefault(p.installed_mcp, "mcpServers: {}"),
        !.api_url = IF NotNullish(p.api_url) THEN p.api_url ELSE Absent,
        !.env_path = IF NotNullish(p.env_path) THEN p.env_path ELSE Absent]

BodyIdle == params = NoParams /\ chatBody = NoParams /\ bodySent = FALSE

\* startChat: body: JSON.stringify(this.toChatBody(params))
SendChatBody ==
    /\ ~bodySent
    /\ chatBody' = toChatBody(params)
    /\ bodySent' = TRUE
    /\ UNCHANGED params
    /\ UNCHANGED <<sseVars, orchVars, submitVars, toolVars, httpVars>>

(* --------------------------- specifications ---------------------------- *)
TaskStep(t) ==
    \/ ParamsBuilt(t)
    \/ ClientCreated(t)
    \/ \E e \in StreamEvents : StreamEvent(t, e)
    \/ StreamEnd(t)
    \/ StreamFail(t)
    \/ LoopLeft(t)
    \/ ReplyResumed(t)
    \/ \E ok \in BOOLEAN : HumanReplyReturn(t, ok)
    \/ \E res \in ToolResults : ToolExecuted(t, res)
    \/ \E ok \in BOOLEAN : ToolResultReturn(t, ok)

Caller ==
    \/ \E r \in Replies : SubmitReply(r)
    \/ abortTask
    \/ \E ok \in BOOLEAN : abortTaskStopped(ok)

\* The caller keeps the single-session rule: startTask is called only when
\* no earlier invocation is still in flight.
StartTaskWhenIdle(t) == Running = {} /\ StartTask(t)

Next ==
    \/ \E t \in Tasks : StartTaskWhenIdle(t)
    \/ \E t \in Tasks : TaskStep(t)
    \/ Caller

\* startTask is not guarded by the orchestrator.  Here the caller starts a
\* task as soon as abortTask has returned for every running invocation, so
\* an aborted invocation that has not yet reached its next checkpoint
\* overlaps the new one.
StartTaskAfterAbort(t) ==
    /\ abortPc = "idle"
    /\ \A u \in Running : abortedTask[u]
    /\ StartTask(t)

NextOverlap ==
    \/ \E t \in Tasks : StartTaskAfterAbort(t)
    \/ \E t \in Tasks : TaskStep(t)
    \/ Caller

SseIdle ==
    /\ input = <<>>
    /\ pos = 0
    /\ buffer = <<>>
    /\ yielded = <<>>
    /\ ssePc = "done"
    /\ cutDelim = FALSE
    /\ cutJson = FALSE

SubmitInit == nSubmits = 0 /\ submitted = ""

Init == OrchInit /\ SseIdle /\ SubmitInit /\ ToolIdle /\ HttpIdle /\ BodyIdle

Spec == Init /\ [][Next]_vars

SpecOverlap == Init /\ [][NextOverlap]_vars

\* Sequential starts, with every submitHumanReply call counted.
NextReply ==
    \/ \E t \in Tasks : StartTaskWhenIdle(t)
    \/ \E t \in Tasks : TaskStep(t)
    \/ \E r \in Replies : SubmitReplyCounted(r)
    \/ abortTask
    \/ \E ok \in BOOLEAN : abortTaskStopped(ok)

SpecReply == Init /\ [][NextReply]_vars

InitSSE == SseInit /\ OrchInit /\ SubmitInit /\ ToolIdle /\ HttpIdle /\ BodyIdle

SpecSSE == InitSSE /\ [][SseNext]_vars


InitTools == ToolInit /\ OrchInit /\ SseIdle /\ SubmitInit /\ HttpIdle /\ BodyIdle

SpecTools == InitTools /\ [][ToolNext]_vars

SpecHttp == Init /\ [][HttpNext]_vars

InitFrames == FramesInit /\ OrchInit /\ SubmitInit /\ ToolIdle /\ HttpIdle /\ BodyIdle

SpecFrames == InitFrames /\ [][SseNext]_vars

\* Every stream is the script and every reply submitted is non-empty; tool
\* results and control calls may succeed or fail, and abortTask may be called.
NextScenario ==
    \/ \E t \in Tasks : StartTaskWhenIdle(t)
    \/ \E t \in Tasks : ParamsBuilt(t)
    \/ \E t \in Tasks : ClientCreated(t)
    \/ \E t \in Tasks : ScriptedEvent(t)
    \/ \E t \in Tasks : LoopLeft(t)
    \/ \E t \in Tasks : ReplyResumed(t)
    \/ \E t \in Tasks, ok \in BOOLEAN : HumanReplyReturn(t, ok)
    \/ \E t \in Tasks, res \in ToolResults : ToolExecuted(t, res)
    \/ \E t \in Tasks, ok \in BOOLEAN : ToolResultReturn(t, ok)
    \/ \E r \in Replies \ {""} : SubmitReplyCounted(r)
    \/ abortTask
    \/ \E ok \in BOOLEAN : abortTaskStopped(ok)

SpecScenario == Init /\ [][NextScenario]_vars

\* startChat is given ChatParams built by buildEigentChatParams or by another caller.
InitBody ==
    /\ params \in BuiltParams \cup OtherParams
    /\ chatBody = NoParams
    /\ bodySent = FALSE
    /\ OrchInit /\ SseIdle /\ SubmitInit /\ ToolIdle /\ HttpIdle

SpecBody == InitBody /\ [][SendChatBody]_vars

\* Scheduling of the sequential specification: a continuation that can run
\* does run, a pending read of the stream is answered (by an event, the end
\* or a failure), the calls an invocation awaits return, and a wait that is
\* registered is resolved by a submitHumanReply call.
Fairness ==
    /\ \A t \in Tasks : WF_vars(TaskStep(t))
    /\ WF_vars(\E r \in Replies : SubmitReply(r))

SpecFair == Spec /\ Fairness
(* ------------------------------- claims -------------------------------- *)
\* What startChat yields when the whole body arrives in one single read.
SingleRead(body) ==
    IF body = <<>> THEN EndEvents(<<>>)
    ELSE LET r == ReadStep(<<>>, body) IN r.events \o EndEvents(r.buffer)

\* C1: whatever the chunking, the events yielded are those of a single read.
C1_ChunkInvariance == ssePc = "done" => yielded = SingleRead(input)

C1_Witness ==
    /\ ssePc = "done"
    /\ cutDelim /\ cutJson
    /\ Len(yielded) >= 2

TerminalMarkers == {"end", "error", "timeout"}

IsSynth(m) == "message" \in DOMAIN m.data

\* The messages an invocation forwarded from its stream (handleEvent).
StreamPosted(t) == SelectSeq(posted[t], LAMBDA m : ~IsSynth(m))

SynthPosted(t) == SelectSeq(posted[t], IsSynth)

IsPrefix(a, b) == Len(a) <= Len(b) /\ \A i \in 1..Len(a) : a[i] = b[i]

Dispatching(t) == pc[t] \in {"waitReply", "resume", "humanReplyCall", "toolExec", "toolResultCall"}

\* C2: nothing is pulled, forwarded or dispatched after the first terminal
\* event, and every event before it is forwarded unless abortTask was called.
C2_TerminalTruncation ==
    \A t \in Tasks :
        /\ \A i \in 1..(Len(produced[t]) - 1) : produced[t][i].step \notin TerminalMarkers
        /\ \A i \in 1..(Len(posted[t]) - 1) : posted[t][i].step \notin TerminalMarkers
        /\ Dispatching(t) => cur[t].step \notin TerminalMarkers
        /\ Len(StreamPosted(t)) < Len(produced[t]) =>
               abortedTask[t] /\ Len(StreamPosted(t)) = Len(produced[t]) - 1

C2_Witness ==
    \E t \in Tasks :
        /\ pc[t] = "done"
        /\ Len(posted[t]) = 2
        /\ posted[t][2].step = "timeout"
        /\ completed[t] # <<>>

\* C3: an abortTask call made during a human-reply wait resolves the wait
\* with the empty reply, clears the slot and lets the loop run on, and no
\* humanReply call is issued for an ask whose wait abortTask resolved.
C3_AbortUnblocksReply ==
    /\ \A t \in Tasks :
          /\ abortedTask[t] => pc[t] # "waitReply" /\ pendingHumanReply.owner # t
          /\ resolvedBy[t] = "abort" => reply[t] = ""
    /\ \A i \in 1..Len(humanReplyCalls) : humanReplyCalls[i].by = "submit"

C3_Witness ==
    \E t \in Tasks :
        /\ pc[t] = "closing"
        /\ resolvedBy[t] = "abort"
        /\ cur[t].step = "ask"
        /\ Len(produced[t]) = 2
        /\ humanReplyCalls = <<>>
        /\ pendingHumanReply = NoPending

\* C4 (as claimed): a returned invocation has had exactly one terminal
\* notification, counting taskCompleted, the taskAborted of its catch block
\* and the taskAborted of abortTask calls made while it ran.
C4_OneTerminalOutcome ==
    \A t \in Tasks :
        Len(completed[t]) + failed[t] >= 1 =>
            Len(completed[t]) + failed[t] + abortNotes[t] = 1

\* C5 (as claimed): everything an invocation forwarded is a prefix of what
\* its stream produced.
C5_PostedIsPrefix == \A t \in Tasks : IsPrefix(posted[t], produced[t])

\* C5 (amended): the messages forwarded from the stream are a prefix of the
\* produced events, unchanged; the only other message is the synthesized
\* error of the catch block, posted last; and the event being handled has
\* already been forwarded.
C5_ForwardedPrefix ==
    \A t \in Tasks :
        /\ IsPrefix(StreamPosted(t), produced[t])
        /\ \A i \in 1..(Len(posted[t]) - 1) : ~IsSynth(posted[t][i])
        /\ Dispatching(t) =>
               /\ Len(posted[t]) = Len(produced[t])
               /\ posted[t][Len(posted[t])] = cur[t]
        /\ \A i \in 1..Len(toolRuns) :
               toolRuns[i].task = t => toolRuns[i].n <= Len(StreamPosted(t))

C5_Witness ==
    \E t \in Tasks :
        /\ pc[t] = "toolExec"
        /\ Len(posted[t]) = 2
        /\ posted[t] = produced[t]
        /\ posted[t][1].step = "ask"

\* C6 (as claimed): once abortTask was called for a running invocation, that
\* invocation forwards no further event, starts no tool execution and
\* registers no human-reply wait.
C6_AbortStopsConsumption ==
    [][\A t \in Tasks :
          (abortedTask[t] /\ InFlight(t)) =>
              /\ Len(StreamPosted(t))' <= Len(StreamPosted(t))
              /\ Len(SelectSeq(toolRuns, LAMBDA r : r.task = t))' <=
                     Len(SelectSeq(toolRuns, LAMBDA r : r.task = t))
              /\ (pendingHumanReply'.owner = t => pendingHumanReply.owner = t)]_vars

ExpectedMethod(step) ==
    CASE step = "execute_file_write" -> "executeFileWrite"
      [] step = "execute_read_file" -> "executeReadFile"
      [] step = "execute_search_replace" -> "executeSearchReplace"
      [] step = "execute_list_files" -> "executeListFiles"
      [] step = "execute_terminal" -> "executeTerminal"

RunsOf(t, n) == {i \in 1..Len(toolRuns) : toolRuns[i].task = t /\ toolRuns[i].n = n}

\* C7: every forwarded execute_* event with a request_id has exactly one
\* Tool Executor run of its kind and then exactly one toolResult call with
\* its request_id, its step as tool_name and the result of the run; no
\* other toolResult call exists.
C7_ToolRoundTrip ==
    /\ Len(toolResultCalls) <= Len(toolRuns)
    /\ \A i \in 1..Len(toolResultCalls) :
          LET c == toolResultCalls[i]
              r == toolRuns[i]
              e == produced[c.task][c.n]
          IN  /\ r.task = c.task /\ r.n = c.n
              /\ e.step \in ToolSteps /\ e.data.rid # ""
              /\ c.request_id = e.data.rid
              /\ c.tool_name = e.step
              /\ c.result = r.result /\ c.result \in ToolResults
    /\ \A i \in 1..Len(toolRuns) :
          LET r == toolRuns[i]
          IN  /\ r.method = ExpectedMethod(produced[r.task][r.n].step)
              /\ RunsOf(r.task, r.n) = {i}
              /\ i > Len(toolResultCalls) =>
                     i = Len(toolRuns) /\ pc[r.task] = "toolExec" /\ r.result = "running"
    /\ \A t \in Tasks : \A n \in 1..Len(StreamPosted(t)) :
          (produced[t][n].step \in ToolSteps /\ produced[t][n].data.rid # "") =>
              RunsOf(t, n) # {}

C7_Witness ==
    \E i \in 1..Len(toolResultCalls) :
        /\ toolResultCalls[i].aborted
        /\ toolResultCalls[i].request_id = "r2"
        /\ toolResultCalls[i].tool_name = "execute_terminal"
        /\ pc[toolResultCalls[i].task] = "done"

\* C8 (as claimed): a humanReply call is made only with a non-empty reply,
\* a session that is not aborted when the call is made and a project id.
C8_ReplySendCondition ==
    \A i \in 1..Len(humanReplyCalls) :
        /\ humanReplyCalls[i].reply # ""
        /\ ~humanReplyCalls[i].aborted
        /\ humanReplyCalls[i].project # 0

FailureMessages == {"startChat failed", "humanReply failed", "toolResult failed"}

\* C9: a failure in the loop ends the invocation through the catch block:
\* one taskAborted, no taskCompleted, and one synthesized error message,
\* posted last, exactly when abortTask had not been called.
C9_FailureHandling ==
    \A t \in Tasks :
        /\ failed[t] <= 1
        /\ Len(SynthPosted(t)) = (IF failed[t] = 1 /\ ~abortedTask[t] THEN 1 ELSE 0)
        /\ failed[t] = 1 =>
              /\ pc[t] = "done"
              /\ completed[t] = <<>>
        /\ \A i \in 1..Len(posted[t]) :
              IsSynth(posted[t][i]) =>
                  /\ i = Len(posted[t])
                  /\ posted[t][i].step = "error"
                  /\ posted[t][i].data.message \in FailureMessages

C9_Witness ==
    \E t \in Tasks :
        /\ failed[t] = 1
        /\ Len(posted[t]) = 2
        /\ posted[t][2] = SynthError("humanReply failed")

LastOf(seq) == seq[Len(seq)]

\* C11: an execute_* event dispatched without a request_id, or while no
\* project identifier or no client is held, starts no Tool Executor
\* operation and no toolResult call, and the loop goes on to the next event
\* without failing.
C11_DroppedToolRequests ==
    [][\A t \in Tasks :
          (/\ Len(produced[t])' = Len(produced[t]) + 1
           /\ Len(posted[t])' = Len(posted[t]) + 1
           /\ LastOf(produced[t])'.step \in ToolSteps
           /\ (LastOf(produced[t])'.data.rid = "" \/ ~client \/ projectId = 0)) =>
              /\ toolRuns' = toolRuns
              /\ toolResultCalls' = toolResultCalls
              /\ failed' = failed
              /\ pc'[t] = "next"]_vars

C11_Witness ==
    \E t \in Tasks :
        /\ pc[t] = "next"
        /\ projectId = 0
        /\ produced[t] # <<>>
        /\ LastOf(produced[t]).step \in ToolSteps
        /\ LastOf(produced[t]).data.rid # ""
        /\ posted[t] = produced[t]
        /\ RunsOf(t, Len(produced[t])) = {}
        /\ failed[t] = 0

RunningTools == {i \in 1..Len(toolRuns) : toolRuns[i].result = "running"}

\* C12: with one session at a time, at most one Tool Executor operation is
\* in progress, at most one event is being handled, and the operation and
\* the toolResult call of an event are over before the next event is
\* forwarded.
C12_SerializedDispatch ==
    /\ Cardinality(RunningTools) <= 1
    /\ Cardinality({t \in Tasks : Dispatching(t)}) <= 1
    /\ \A i \in 1..Len(toolRuns) :
          LET r == toolRuns[i]
          IN  /\ r.result = "running" =>
                     pc[r.task] = "toolExec" /\ r.n = Len(posted[r.task])
              /\ r.n < Len(posted[r.task]) =>
                     /\ r.result \in ToolResults
                     /\ \E j \in 1..Len(toolResultCalls) :
                            toolResultCalls[j].task = r.task /\ toolResultCalls[j].n = r.n
    /\ \A t \in Tasks :
          pc[t] = "toolResultCall" =>
              /\ toolResultCalls # <<>>
              /\ LastOf(toolResultCalls).task = t
              /\ LastOf(toolResultCalls).n = Len(posted[t])

C12_Witness ==
    \E t \in Tasks :
        /\ pc[t] = "toolExec"
        /\ Len(posted[t]) = 2
        /\ RunsOf(t, 1) # {}
        /\ RunsOf(t, 2) # {}
        /\ Len(toolResultCalls) = 1


SessionActive == projectId # 0 /\ client

\* C13: abortTask works in every state and never fails.  The call sets the
\* aborted flag, resolves a pending human reply wait with the empty text and
\* clears the slot, issues a stop call exactly when a project identifier and
\* a client are held (one call, none otherwise), a failing stop call is
\* swallowed, and the abort notification is emitted once per call whether
\* or not a session is active.
C13_AbortUnconditional ==
    [][/\ nAborts' = nAborts + 1 =>
            /\ aborted'
            /\ pendingHumanReply' = NoPending
            /\ pendingHumanReply # NoPending =>
                   /\ pc'[pendingHumanReply.owner] = "resume"
                   /\ reply'[pendingHumanReply.owner] = ""
            /\ IF SessionActive
               THEN /\ Len(stopCalls') = Len(stopCalls) + 1
                    /\ LastOf(stopCalls').project = projectId
                    /\ abortEmits' = abortEmits
                    /\ abortPc' = "stopping"
               ELSE /\ stopCalls' = stopCalls
                    /\ abortEmits' = abortEmits + 1
                    /\ abortPc' = "idle"
       /\ nAborts' = nAborts => Len(stopCalls') <= Len(stopCalls)
       /\ (abortPc = "stopping" /\ abortPc' # "stopping") =>
              /\ abortPc' = "idle"
              /\ abortEmits' = abortEmits + 1
       /\ abortPc' # "failed"
       /\ abortEmits' + (IF abortPc' = "stopping" THEN 1 ELSE 0) = nAborts']_vars

C13_Witness ==
    /\ nAborts = 2 /\ abortEmits = 2 /\ abortPc = "idle"
    /\ \E i \in 1..Len(stopCalls) : stopCalls[i].outcome = "failed"
    /\ Len(stopCalls) = 1

\* C14: a submitHumanReply call made while a wait is pending resolves that
\* wait with exactly the text given and clears the slot, and changes nothing
\* else; a wait is resolved at most once, so a resolved value stays as it is
\* until its invocation resumes, and only a submit or an abort resolves a
\* wait.  A call made while no wait is pending changes no state, issues no
\* control call and its text is not kept for a later wait.
C14_SubmitHumanReply ==
    [][/\ nSubmits' = nSubmits + 1 =>
            IF pendingHumanReply # NoPending
            THEN LET o == pendingHumanReply.owner
                 IN  /\ pc[o] = "waitReply"
                     /\ pc' = [pc EXCEPT ![o] = "resume"]
                     /\ reply' = [reply EXCEPT ![o] = submitted']
                     /\ resolvedBy'[o] = "submit"
                     /\ pendingHumanReply' = NoPending
                     /\ <<projectId, taskId, aborted, client, cur>>' =
                            <<projectId, taskId, aborted, client, cur>>
                     /\ <<produced, posted, calls, notes, abortVars>>' =
                            <<produced, posted, calls, notes, abortVars>>
            ELSE orchVars' = orchVars
       /\ \A t \in Tasks :
             /\ (pc[t] = "resume" /\ pc'[t] = "resume") =>
                    reply'[t] = reply[t] /\ resolvedBy'[t] = resolvedBy[t]
             /\ (pc[t] # "resume" /\ pc'[t] = "resume") =>
                    /\ pc[t] = "waitReply"
                    /\ pendingHumanReply.owner = t
                    /\ nSubmits' = nSubmits + 1 \/ nAborts' = nAborts + 1
             /\ (pc[t] = "waitReply" /\ pc'[t] # "waitReply") => pc'[t] = "resume"]_vars

\* Two calls were made and only one wait ever existed: one call resolved it
\* with "yes", the other found no wait pending.
C14_Witness ==
    /\ nSubmits = 2 /\ nAborts = 0
    /\ pc[1] = "humanReplyCall" /\ \A t \in Tasks \ {1} : pc[t] = "idle"
    /\ Len(produced[1]) = 1 /\ produced[1][1].step = "ask"
    /\ reply[1] = "yes" /\ resolvedBy[1] = "submit"
    /\ LastOf(humanReplyCalls).reply = "yes"

Orphaned(t) == pc[t] = "waitReply" /\ pendingHumanReply.owner # t

\* C15: there is one slot for a pending human reply.  An invocation that
\* starts to wait takes the slot, whatever it held; an invocation whose wait
\* was replaced in the slot is resolved by no later submitHumanReply or
\* abortTask and stays suspended in its wait, so its startTask never returns.
C15_SinglePendingSlot ==
    [][\A t \in Tasks :
          /\ (pc[t] # "waitReply" /\ pc'[t] = "waitReply") =>
                 /\ pendingHumanReply'.owner = t
                 /\ \A u \in Tasks \ {t} : pc[u] = "waitReply" => Orphaned(u)'
          /\ Orphaned(t) =>
                 /\ Orphaned(t)'
                 /\ reply'[t] = reply[t]
                 /\ resolvedBy'[t] = resolvedBy[t]]_vars

\* Invocation 1 lost the slot to invocation 2, which asked, was resolved and
\* has returned; a second abortTask has been made since, and invocation 1
\* still waits.
C15_Witness ==
    /\ Orphaned(1) /\ nAborts = 2 /\ abortPc = "idle"
    /\ pendingHumanReply = NoPending
    /\ pc[2] = "done" /\ posted[2] # <<>> /\ LastOf(posted[2]).step = "ask"

FileOps == {"executeFileWrite", "executeReadFile", "executeSearchReplace"}

\* The latest operation met a fault: an undefined path, a file that could
\* not be read, a file that could not be written, a listing that failed, or
\* a command that did not exit with code 0.
ToolFault ==
    \/ call.op \in FileOps /\ ~Has(call.data.path)
    \/ call.op \in {"executeReadFile", "executeSearchReplace"} /\
           (~Has(call.before) \/ call.fault = "read")
    \/ call.op = "executeFileWrite" /\ call.fault = "write"
    \/ call.op = "executeListFiles" /\ call.fault = "list"
    \/ call.op = "executeTerminal" /\ call.fault # "exit0"

\* Every operation returns a result with a boolean success, and a fault is
\* returned as success = false with the error field set.
ToolResultWellFormed ==
    toolOps > 0 =>
        /\ result.success \in BOOLEAN
        /\ ToolFault => result.success = FALSE
        /\ result.success = FALSE => Has(result.error)

\* C16: every Tool Executor operation returns a ToolResult with a boolean
\* success for every input and fault, and every failure is returned as
\* success = false with an error message, that is a non-empty error text.
C16_ToolExecutorTotality ==
    /\ ToolResultWellFormed
    /\ (toolOps > 0 /\ result.success = FALSE) => Val(result.error) # <<>>

SearchReplaced == call'.op = "executeSearchReplace" /\ toolOps' = toolOps + 1

\* C17: executeSearchReplace on a readable file in which old_string does not
\* occur returns success = true with the no-change message, leaves the
\* stored content as it is and invokes no write; it invokes a write only
\* when the replaced content differs from the content read, and returns the
\* completed message only after such a write.
C17_SearchReplaceNoOp ==
    [][SearchReplaced =>
         LET d == call'.data
             readable == Has(d.path) /\ Has(file) /\ call'.fault # "read"
             content == Decode(Val(file))
             occurs == Has(d.old_string) /\ IndexOf(content, Val(d.old_string), 1) # 0
         IN  /\ (readable /\ ~occurs) =>
                    /\ result'.success = TRUE
                    /\ result'.content = Field(<<"No changes needed (old_string not found)">>)
                    /\ file' = file
                    /\ writes' = writes
             /\ writes' # writes =>
                    /\ readable /\ writes' = writes + 1
                    /\ JoinWith(SplitBy(content, d.old_string), d.new_string) # content
             /\ file' # file => writes' = writes + 1
             /\ result'.content = Field(<<"Search and replace completed">>) <=>
                    (writes' = writes + 1 /\ call'.fault # "write")]_vars

\* old_string "c" does not occur in "aba": two calls, no write, file intact.
C17_Witness ==
    /\ call.op = "executeSearchReplace" /\ toolOps = 2 /\ writes = 0
    /\ call.before = Field(<<"a", "b", "a">>) /\ file = call.before
    /\ call.data.old_string = Field(<<"c">>) /\ call.data.new_string = Field(<<"b">>)
    /\ result.content = Field(<<"No changes needed (old_string not found)">>)

\* C18: startChat and every control call issue exactly one request per
\* call; when the response is not successful the call fails, with an error
\* that carries the status code and the body text of that response, and no
\* further request follows from it; a startChat that failed has yielded no
\* event and yields none later.
C18_TransportErrors ==
    [][/\ httpCalls' = httpCalls + 1 =>
            /\ Len(requests') = Len(requests) + 1
            /\ LastOf(requests') = outcome'.call
            /\ outcome'.call \in ControlCalls \cup {"startChat"}
            /\ ~Ok(response') =>
                   /\ outcome'.state = "failed"
                   /\ outcome'.error.call = outcome'.call
                   /\ ~response'.textFails =>
                          /\ outcome'.error.status = response'.status
                          /\ outcome'.error.text = response'.text
                   /\ outcome'.call = "startChat" => yielded' = <<>> /\ ssePc' = "done"
       /\ httpCalls' = httpCalls => requests' = requests /\ outcome' = outcome
       /\ (outcome.call = "startChat" /\ outcome.state = "failed" /\ httpCalls' = httpCalls) =>
              yielded' = <<>>]_vars

\* A startChat answered with status 500 and body "detail", after an earlier
\* control call: two calls, two requests, nothing yielded.
C18_Witness ==
    /\ httpCalls = 2 /\ Len(requests) = 2
    /\ requests[1] \in ControlCalls /\ requests[2] = "startChat"
    /\ response = [status |-> 500, text |-> "detail", textFails |-> FALSE]
    /\ outcome = Failed("startChat", TransportError("startChat", response))
    /\ yielded = <<>> /\ ssePc = "done"

\* What a frame of the stream is: no data line, invalid JSON, not an
\* object, no step, or a frame with a step.
Malformed == {<<"a", "b">>, <<"d", "a", "b", "a">>, <<"d", "a">>, <<"d", "a", "a">>}
StepOfFrame(f) ==
    CASE f = <<"d", "a", "b">> -> "confirmed"
      [] f = <<"d", "b", "a">> -> "end"
      [] f = <<"d", "b", "b">> -> "zzz"
      [] OTHER -> "none"

\* The events of the frames that are not malformed, in stream order.
RECURSIVE EventsOf(_)
EventsOf(fs) ==
    IF fs = <<>> THEN <<>>
    ELSE (IF Head(fs) \in Malformed \/ Head(fs) = <<>> THEN <<>>
          ELSE <<[step |-> StepOfFrame(Head(fs))]>>) \o EventsOf(Tail(fs))

\* C19: whatever malformed frames a stream holds (no data line, invalid
\* JSON, JSON that is no object, no step), startChat reads it to the end,
\* discards exactly those frames and yields the events of all other frames in
\* their order, for every way the body is cut into chunks.
C19_DecodeErrorsDiscarded ==
    /\ IsPrefix(yielded, EventsOf(Split(input)))
    /\ ssePc = "done" => yielded = EventsOf(Split(input))

\* A good frame, an invalid one and a good one, delivered in more than one
\* chunk with a cut inside a separator: both good frames were yielded.
C19_Witness ==
    /\ ssePc = "done" /\ cutDelim
    /\ input = <<"d", "a", "b", NL, NL, "d", "a", "b", "a", NL, NL, "d", "b", "a">>
    /\ yielded = <<[step |-> "confirmed"], [step |-> "end"]>>

\* C20: every event startChat yields has a step of the AgentStep enumeration.
C20_StepInEnumeration ==
    \A i \in 1..Len(yielded) : yielded[i].step \in AgentSteps

HumanReplyCallsOf(t) == {i \in 1..Len(humanReplyCalls) : humanReplyCalls[i].task = t}
ToolResultCallsOf(t) == {i \in 1..Len(toolResultCalls) : toolResultCalls[i].task = t}
ScriptPosted == [i \in 1..Len(Script) |-> [step |-> Script[i].step, data |-> Script[i].data]]

\* The scenario ran undisturbed for invocation t: no abortTask was called
\* while it ran and none of its control calls failed.
Undisturbed(t) == ~abortedTask[t] /\ failed[t] = 0

\* While the scenario runs: the observer has a prefix of the script, the
\* read event is forwarded only after the one human-reply call, made with
\* the ask's agent and the submitted text, has returned.
ScenarioOrder(t) ==
    /\ IsPrefix(posted[t], ScriptPosted)
    /\ Cardinality(HumanReplyCallsOf(t)) <= 1
    /\ Cardinality(ToolResultCallsOf(t)) <= 1
    /\ \A i \in HumanReplyCallsOf(t) :
          /\ humanReplyCalls[i].agent = "a1" /\ humanReplyCalls[i].reply = "yes"
          /\ humanReplyCalls[i].by = "submit" /\ humanReplyCalls[i].n = 1
          /\ humanReplyCalls[i].project = t
    /\ \A i \in ToolResultCallsOf(t) :
          /\ toolResultCalls[i].request_id = "r1"
          /\ toolResultCalls[i].tool_name = "execute_read_file"
          /\ toolResultCalls[i].n = 2 /\ toolResultCalls[i].project = t
    /\ Len(posted[t]) >= 2 => HumanReplyCallsOf(t) # {} /\ pc[t] # "humanReplyCall"
    /\ Len(posted[t]) >= 3 => ToolResultCallsOf(t) # {} /\ pc[t] # "toolResultCall"

\* How the scenario has ended for invocation t.
ScenarioOutcome(t) ==
    /\ posted[t] = ScriptPosted
    /\ Cardinality(HumanReplyCallsOf(t)) = 1
    /\ Cardinality(ToolResultCallsOf(t)) = 1
    /\ completed[t] = <<t>>
    /\ projectId = 0 /\ taskId = 0

\* C21: on the stream ask, execute_read_file with a request_id, end, with a
\* non-empty reply submitted for the ask, the observer receives exactly
\* these three events in order, one human-reply call is made with the ask's
\* agent and the reply and returns before the read event is forwarded, one
\* tool-result call is made with the read event's request_id and tool name,
\* and startTask returns having notified completion with the task id.
C21_EndToEndScenario ==
    [][\A t \in Tasks :
          /\ Undisturbed(t)' => ScenarioOrder(t)'
          /\ (pc[t] # "done" /\ pc'[t] = "done" /\ Undisturbed(t)') => ScenarioOutcome(t)']_vars

C21_Witness ==
    /\ pc[1] = "done" /\ Undisturbed(1) /\ nAborts = 0
    /\ posted[1] = ScriptPosted /\ completed[1] = <<1>>
    /\ Len(humanReplyCalls) = 1 /\ Len(toolResultCalls) = 1
    /\ toolResultCalls[1].request_id = "r1"

\* A field of the ChatParams is set: it is neither undefined nor null.
IsSet(f) == NotNullish(params[f])

\* C22: every field that is set in the ChatParams passed to startChat is in
\* the body of the start-session request with the same value.
C22_BodyCarriesParams ==
    bodySent => \A f \in ChatFields : IsSet(f) => chatBody[f] = params[f]

\* The same for the fields toChatBody assigns.
BodyCarriesAssigned ==
    bodySent => \A f \in ChatFields \ {"file_save_path"} : IsSet(f) => chatBody[f] = params[f]

\* handleEvent of invocation t is inside its ask case.
InAskCase(t) == pc[t] \in {"waitReply", "resume", "humanReplyCall"}

\* The step is a call of submitHumanReply or of abortTask.
ResolvingCall == nSubmits' = nSubmits + 1 \/ nAborts' = nAborts + 1

\* C23: with one session at a time, while the wait of an ask is unresolved no
\* event is taken from the stream, nothing is forwarded and startTask emits
\* neither taskCompleted nor taskAborted; the wait is left only in a step of
\* submitHumanReply or abortTask, which hands over that call's reply; and up
\* to the return of the human-reply call no further event is taken, the
\* only message posted meanwhile being the error of a call that threw.
C23_WaitBlocksLoop ==
    [][\A t \in Tasks :
          /\ pc[t] = "waitReply" =>
                /\ produced'[t] = produced[t]
                /\ posted'[t] = posted[t]
                /\ completed'[t] = completed[t]
                /\ failed'[t] = failed[t]
                /\ toolRuns' = toolRuns
                /\ pc'[t] \in {"waitReply", "resume"}
                /\ pc'[t] = "resume" =>
                      /\ ResolvingCall
                      /\ resolvedBy'[t] \in {"submit", "abort"}
                      /\ resolvedBy'[t] = "submit" => reply'[t] = submitted'
                      /\ resolvedBy'[t] = "abort" => reply'[t] = ""
          /\ InAskCase(t) =>
                /\ produced'[t] = produced[t]
                /\ posted'[t] # posted[t] => pc[t] = "humanReplyCall" /\ pc'[t] = "done"
                /\ completed'[t] = completed[t]]_vars

\* A reply was submitted and sent, and the event after the ask was forwarded.
C23_Witness ==
    \E t \in Tasks :
        /\ Len(posted[t]) = 2
        /\ posted[t][1].step = "ask"
        /\ \E i \in 1..Len(humanReplyCalls) :
              humanReplyCalls[i].task = t /\ humanReplyCalls[i].by = "submit"

\* The part of the body the reader has delivered so far.
Delivered == SubSeq(input, 1, pos)

\* The event of a remainder that is non-empty and well formed.
FinalFrame(rest) ==
    IF rest # <<>> /\ parseSSEChunk(rest) # NoEvent THEN <<parseSSEChunk(rest)>> ELSE <<>>

\* C24: while the stream is being read, the events yielded are exactly those
\* of the frames whose delimiter has been delivered, whatever the reads were,
\* and the fragment after the last delimiter is kept in the buffer and not
\* yielded; once the stream has ended, a non-empty remainder has been decoded
\* as one final frame and, if well formed, yielded after all earlier events.
C24_FinalFrameAtEnd ==
    /\ ssePc = "reading" =>
          /\ yielded = ParseAll(CompleteFrames(Split(Delivered)))
          /\ buffer = Retain(Split(Delivered))
    /\ ssePc = "done" /\ pos = Len(input) =>
          yielded = ParseAll(CompleteFrames(Split(input))) \o FinalFrame(Retain(Split(input)))

\* The stream ended with an unterminated well-formed frame after an earlier
\* event, and one read had ended inside a delimiter.
C24_Witness ==
    /\ ssePc = "done"
    /\ input # <<>>
    /\ buffer # <<>>
    /\ Len(yielded) = 2
    /\ yielded[2] = parseSSEChunk(buffer)
    /\ cutDelim

\* s with every occurrence of the non-empty text old replaced by new,
\* scanning from the left and resuming after each occurrence.
RECURSIVE ReplacedLiteral(_, _, _)
ReplacedLiteral(s, old, new) ==
    IF Len(s) < Len(old) THEN s
    ELSE IF SubSeq(s, 1, Len(old)) = old
    THEN new \o ReplacedLiteral(SubSeq(s, Len(old) + 1, Len(s)), old, new)
    ELSE <<Head(s)>> \o ReplacedLiteral(Tail(s), old, new)

Occurs(s, old) == \E i \in 1..(Len(s) - Len(old) + 1) : SubSeq(s, i, i + Len(old) - 1) = old

\* The call is executeSearchReplace on a readable file of valid text, with
\* a non-empty old_string and a new_string.
SearchReplaceApplies ==
    /\ SearchReplaced
    /\ Has(call'.data.path) /\ Has(file) /\ call'.fault # "read"
    /\ \A i \in 1..Len(Val(file)) : Val(file)[i] # "x"
    /\ Has(call'.data.old_string) /\ Val(call'.data.old_string) # <<>>
    /\ Has(call'.data.new_string)

NoChangeReturned == result'.content = Field(<<"No changes needed (old_string not found)">>)

\* A write of executeSearchReplace stores the content with every
\* occurrence of old_string replaced by new_string, left to right.
WrittenIsReplaced ==
    LET d == call'.data
    IN  (writes' = writes + 1 /\ call'.fault # "write") =>
            file' = Field(ReplacedLiteral(Val(file), Val(d.old_string), Val(d.new_string)))

\* C25: when executeSearchReplace writes, the written content is the
\* original with every non-overlapping literal occurrence of old_string
\* replaced by new_string, left to right; and the no-change response is
\* returned exactly when old_string does not occur in the content.
C25_SearchReplaceResult ==
    [][SearchReplaceApplies =>
         /\ WrittenIsReplaced
         /\ NoChangeReturned <=> ~Occurs(Val(file), Val(call'.data.old_string))]_vars

\* The same, with the no-change response returned exactly when the
\* replacement leaves the content as it is.
SearchReplaceUnchanged ==
    [][SearchReplaceApplies =>
         /\ WrittenIsReplaced
         /\ NoChangeReturned <=>
               ReplacedLiteral(Val(file), Val(call'.data.old_string),
                               Val(call'.data.new_string)) = Val(file)]_vars

\* "aa" was replaced in "aaa": one occurrence, the third "a" is kept.
SearchReplaceOverlap ==
    /\ call.op = "executeSearchReplace" /\ call.before = Field(<<"a", "a", "a">>)
    /\ call.data.old_string = Field(<<"a", "a">>) /\ call.data.new_string = Field(<<"b">>)
    /\ file = Field(<<"b", "a">>)

\* Under the scheduling of SpecFair every invocation of startTask returns,
\* and at its return the identifiers are cleared.
StartTaskTerminates ==
    \A t \in Tasks : InFlight(t) ~> (pc[t] = "done" /\ projectId = 0 /\ taskId = 0)

\* C26: startTask returns once its stream has ended and its waits and calls
\* have returned; and after abortTask was called for a running invocation,
\* the arrival of its next event makes it leave the loop, and from there it
\* takes nothing more from the stream and returns with the identifiers
\* cleared.
C26_ReturnsAfterAbort ==
    [][\A t \in Tasks :
          /\ (abortedTask[t] /\ InFlight(t) /\ produced'[t] # produced[t]) =>
                pc'[t] = "closing"
          /\ pc[t] = "closing" =>
                /\ produced'[t] = produced[t]
                /\ pc'[t] \in {"closing", "done"}
                /\ pc'[t] = "done" => projectId' = 0 /\ taskId' = 0]_vars

\* Invocation t holds a session (it has taken its identifiers from params)
\* and no invocation started after it does.
LatestSession(t) ==
    /\ pc[t] \notin {"idle", "build", "done"}
    /\ \A u \in Tasks : u > t => pc[u] \in {"idle", "build"}

\* The later invocation keeps its identifiers.
KeepsIdentifiers == \A t \in Tasks : (t > 1 /\ LatestSession(t)) => (projectId = t /\ taskId = t)

\* Every tool request with a request_id that a later invocation forwarded
\* has started a Tool Executor operation.
ToolRequestsServed ==
    \A t \in Tasks : \A n \in 1..Len(StreamPosted(t)) :
        (t > 1 /\ produced[t][n].step \in ToolSteps /\ produced[t][n].data.rid # "") =>
            RunsOf(t, n) # {}

\* The control calls of a later invocation name its own project, and those
\* of an earlier one never name the project of a later one.
CallsAddressed(log) ==
    \A i \in 1..Len(log) :
        /\ log[i].project <= log[i].task
        /\ log[i].task > 1 => log[i].project = log[i].task

\* A later invocation resumed with a submitted non-empty reply sends it.
ReplyStillSent ==
    \A t \in Tasks :
        (t > 1 /\ pc[t] = "resume" /\ pc'[t] # "resume" /\ reply[t] # "") =>
            Len(humanReplyCalls') = Len(humanReplyCalls) + 1

\* C27: when startTask is called while an earlier invocation has not
\* returned, the later invocation keeps its own project and task identifiers
\* until it terminates, its tool requests with a request_id are executed and
\* answered to its own project, its human replies are sent, and no call of
\* the earlier invocation names the later one's project.
C27_SessionIsolation ==
    [][/\ KeepsIdentifiers'
       /\ ToolRequestsServed'
       /\ CallsAddressed(toolResultCalls)'
       /\ CallsAddressed(humanReplyCalls)'
       /\ ReplyStillSent]_vars

====
